---- MODULE Spec2Model ----
(***************************************************************************)
(* A model of the mlb viewer's scrollable listing (lineup::Schedule) and   *)
(* of its asynchronously fetched photos (lineup::Photo).                   *)
(*                                                                         *)
(* Indices (cursor, game indices) are 0-based as in the source; the TLA+   *)
(* sequence games is 1-based, so game i of the source is games[i + 1].     *)
(***************************************************************************)
EXTENDS Integers, Sequences, FiniteSets, TLC

\* ---------------------------------------------------------------- bounds
\* Largest listing of the full specification (every photo has a task).
MaxGames == 3
\* Largest listing of the navigation specification (tasks not scheduled).
MaxNavGames == 14
\* How many tasks finish (send or fail) within a run; the others are still
\* in flight, which the tasks, having no timeout, may be for ever.
MaxFinished == 3
\* Largest listing of the task specification (every stage of every task).
MaxTaskGames == 2
\* How many tasks get past their spawn within a run of the task
\* specification; the others have not been scheduled yet.
MaxStarted == 2
\* Largest dates list of a payload, and largest games list of a date.
MaxDates == 2
MaxDateGames == 2
\* Width of usize in the model. The source's usize has 64 bits; the model
\* keeps the wrap-around but at a width TLC's integers can hold.
UsizeBits == 16

\* ------------------------------------------------------------- constants
PAGE_SIZE == 5
\* A rendezvous channel, bounded(0), in place of bounded(1).
ChannelCapacityRendezvous == 1 - 1

\* crossbeam_channel::bounded(1)
ChannelCapacity == 1

\* Every report of the task is two eprintln!: the message, then the error.
LogLines == 2

UsizeModulus == 2 ^ UsizeBits

\* The stages of the task of Photo::new, in order.
Stages == <<"parse", "connect", "download", "decode", "send">>

Sizes == {"large", "small"}
Builds == {"debug", "release"}

\* Option::None
None == <<>>
\* The image a photo's task decodes from the photo's own src.
Fetched(p) == <<"img", p[1], p[2]>>
MLB_LOGO_LARGE == <<"MLB_LOGO_LARGE">>
MLB_LOGO_SMALL == <<"MLB_LOGO_SMALL">>

VARIABLES
    build,      \* overflow checks on ("debug") or off ("release")
    games,      \* Schedule.games: the headline and subhead of each game
    cursor,     \* Schedule.cursor
    photo,      \* Photo.photo of each photo <<game, size>>
    channel,    \* the bounded(1) channel of each photo
    task,       \* the task spawned by Photo::new for each photo
    panicked,   \* the main thread has panicked
    exited,     \* main has returned: the Schedule and its receivers are dropped
    stage,      \* the stage each task is at, as an index of Stages
    stderr,     \* the number of lines each task has written to stderr
    sends,      \* history: the number of tx.send calls of each task
    firstGot,   \* history: the first image each photo's get returned
    ret,        \* the last Schedule operation and what it returned
    main        \* main: where it stands, and the api::Schedule fetch

vars == <<build, games, cursor, photo, channel, task, panicked, exited, stage,
          stderr, sends, firstGot, ret, main>>

PhotoIds(n) == (0 .. n - 1) \X Sizes

\* api::Game -> lineup::Game: the texts of the i-th game of the payload.
Game(i) == [headline |-> <<"headline", i>>, subhead |-> <<"subhead", i>>]

\* api::DEFAULT
DEFAULT ==
    "http://statsapi.mlb.com/api/v1/schedule?hydrate=game(content(editorial(recap))),decisions&date=2018-06-10&sportId=1"

\* The stages of api::Schedule::try_from, in order, and the ErrorContext
\* that the map_err of each stage puts in its APIError.
TryFromStages == <<"parse", "connect", "download", "deserialize">>
ErrorContext ==
    <<"URIParsing", "ConnectionEstablishment", "Downloading", "Deserializing">>

\* main inside the render loop, the fetch and the conversion behind it.
InLoop ==
    [pc |-> "loop", stage |-> Len(TryFromStages), src |-> DEFAULT,
     err |-> None, dates |-> <<>>]

\* impl From<api::Schedule> for Schedule, for a last date of n games: one
\* Game per game in order, two Photo::new per game, cursor 0. Photo::new
\* leaves photo None, the channel empty with its sender held by the task.
InitOf(max) ==
    /\ build \in Builds
    /\ \E n \in 0 .. max :
        /\ games = [i \in 1 .. n |-> Game(i - 1)]
        /\ photo = [p \in PhotoIds(n) |-> None]
        /\ channel = [p \in PhotoIds(n) |-> [buf |-> <<>>, connected |-> TRUE]]
        /\ task = [p \in PhotoIds(n) |-> "running"]
        /\ firstGot = [p \in PhotoIds(n) |-> None]
        /\ stage = [p \in PhotoIds(n) |-> 1]
        /\ stderr = [p \in PhotoIds(n) |-> 0]
        /\ sends = [p \in PhotoIds(n) |-> 0]
    /\ cursor = 0
    /\ panicked = FALSE
    /\ exited = FALSE
    /\ ret = [op |-> "new"]
    /\ main = InLoop

Init == InitOf(MaxGames)

InitTask == InitOf(MaxTaskGames)

InitNav == InitOf(MaxNavGames)

\* a - b on usize: exact when it fits; otherwise a panic under overflow
\* checks (ok = FALSE) and a wrap-around without them.
UsizeSub(a, b) ==
    IF a >= b THEN [ok |-> TRUE, val |-> a - b]
    ELSE IF build = "debug" THEN [ok |-> FALSE, val |-> 0]
    ELSE [ok |-> TRUE, val |-> (a - b + UsizeModulus) % UsizeModulus]

\* A panic unwinds main; nothing of the state is touched.
Panic ==
    /\ panicked' = TRUE
    /\ UNCHANGED <<main, build, exited, stage, stderr, sends, games, cursor, photo, channel, task, firstGot, ret>>

\* ------------------------------------------------------------ Schedule

\* Schedule::left without its guard: cursor -= 1 at any cursor.
LeftUnguarded ==
    /\ ~panicked /\ ~exited
    /\ LET down == UsizeSub(cursor, 1)
       IN  IF ~down.ok
           THEN Panic
           ELSE /\ cursor' = down.val
                /\ ret' = [op |-> "left", from |-> cursor]
                /\ UNCHANGED <<main, build, exited, stage, stderr, sends, games, photo, channel, task, panicked,
                               firstGot>>

\* Schedule::left
Left ==
    /\ ~panicked /\ ~exited
    /\ cursor' = IF cursor > 0 THEN cursor - 1 ELSE cursor
    /\ ret' = [op |-> "left", from |-> cursor]
    /\ UNCHANGED <<main, build, exited, stage, stderr, sends, games, photo, channel, task, panicked, firstGot>>

\* Schedule::right saturating at the last index, games.len() - 1.
RightToLast ==
    /\ ~panicked /\ ~exited
    /\ LET bound == UsizeSub(Len(games), 1)
       IN  IF ~bound.ok
           THEN Panic
           ELSE /\ cursor < bound.val => cursor < MaxNavGames
                /\ cursor' = IF cursor < bound.val THEN cursor + 1 ELSE cursor
                /\ ret' = [op |-> "right", from |-> cursor]
                /\ UNCHANGED <<main, build, exited, stage, stderr, sends, games,
                               photo, channel, task, panicked, firstGot>>

\* Schedule::right. The increment is capped at MaxNavGames, which only the
\* wrapped bound of a listing of fewer than two games lets the cursor reach.
Right ==
    /\ ~panicked /\ ~exited
    /\ LET bound == UsizeSub(Len(games), 2)
       IN  IF ~bound.ok
           THEN Panic
           ELSE /\ cursor < bound.val => cursor < MaxNavGames
                /\ cursor' = IF cursor < bound.val THEN cursor + 1 ELSE cursor
                /\ ret' = [op |-> "right", from |-> cursor]
                /\ UNCHANGED <<main, build, exited, stage, stderr, sends, games, photo, channel, task, panicked,
                               firstGot>>

\* Schedule::has_more: ok = FALSE when the subtraction panics.
has_more ==
    LET bound == UsizeSub(Len(games), PAGE_SIZE)
    IN  [ok |-> bound.ok, val |-> cursor < bound.val]

HasMore ==
    /\ ~panicked /\ ~exited
    /\ IF ~has_more.ok
       THEN Panic
       ELSE /\ ret' = [op |-> "has_more", val |-> has_more.val]
            /\ UNCHANGED <<main, build, exited, stage, stderr, sends, games, cursor, photo, channel, task,
                           panicked, firstGot>>

\* Schedule::has_less comparing against PAGE_SIZE instead of PAGE_SIZE - 1.
has_less_late == cursor > PAGE_SIZE

\* Schedule::has_less
has_less == cursor > PAGE_SIZE - 1

\* A has_less that looks left by stepping left.
HasLessSteps ==
    /\ ~panicked /\ ~exited
    /\ ret' = [op |-> "has_less", val |-> has_less]
    /\ cursor' = IF cursor > 0 THEN cursor - 1 ELSE cursor
    /\ UNCHANGED <<main, build, exited, stage, stderr, sends, games, photo, channel,
                   task, panicked, firstGot>>

HasLess ==
    /\ ~panicked /\ ~exited
    /\ ret' = [op |-> "has_less", val |-> has_less]
    /\ UNCHANGED <<main, build, exited, stage, stderr, sends, games, cursor, photo, channel, task, panicked,
                   firstGot>>

\* --------------------------------------------------------------- Photo

\* Photo::get that hands the received image out without storing it.
get_uncached(ph, ch) ==
    IF ph # None
    THEN [photo |-> ph, channel |-> ch, result |-> ph, tried |-> FALSE]
    ELSE IF ch.buf # <<>>
         THEN [photo |-> None,
               channel |-> [ch EXCEPT !.buf = Tail(ch.buf)],
               result |-> Head(ch.buf), tried |-> TRUE]
         ELSE [photo |-> None, channel |-> ch, result |-> None, tried |-> TRUE]

\* Photo::get that asks the channel first and falls back on the field.
get_recv_first(ph, ch) ==
    IF ch.buf # <<>>
    THEN [photo |-> Head(ch.buf),
          channel |-> [ch EXCEPT !.buf = Tail(ch.buf)],
          result |-> Head(ch.buf), tried |-> TRUE]
    ELSE [photo |-> ph, channel |-> ch, result |-> ph, tried |-> TRUE]

\* Photo::get that returns the field and never asks the channel.
get_field_only(ph, ch) ==
    [photo |-> ph, channel |-> ch, result |-> ph, tried |-> FALSE]

\* Photo::get on a photo whose field is ph and whose channel is ch: the new
\* field, the new channel, the returned Option and whether try_recv was
\* called. try_recv takes a buffered message whether or not the sender is
\* still there, and fails (Empty or Disconnected) on an empty buffer.
get(ph, ch) ==
    IF ph # None
    THEN [photo |-> ph, channel |-> ch, result |-> ph, tried |-> FALSE]
    ELSE IF ch.buf # <<>>
         THEN [photo |-> Head(ch.buf),
               channel |-> [ch EXCEPT !.buf = Tail(ch.buf)],
               result |-> Head(ch.buf), tried |-> TRUE]
         ELSE [photo |-> None, channel |-> ch, result |-> None, tried |-> TRUE]

\* The tasks that have returned.
Finished == {p \in DOMAIN task : task[p] # "running"}

\* The tasks that have got past their spawn.
Started == {p \in DOMAIN task : task[p] # "running" \/ stage[p] > 1}

\* tx.send(img) failing without a word: Err(_) => ().
SendSilent(p) ==
    /\ sends' = [sends EXCEPT ![p] = @ + 1]
    /\ IF exited
       THEN /\ task' = [task EXCEPT ![p] = "undelivered"]
            /\ channel' = [channel EXCEPT ![p].connected = FALSE]
            /\ UNCHANGED stderr
       ELSE /\ Len(channel[p].buf) < ChannelCapacity
            /\ task' = [task EXCEPT ![p] = "sent"]
            /\ channel' = [channel EXCEPT ![p] =
                  [buf |-> Append(@.buf, Fetched(p)), connected |-> FALSE]]
            /\ UNCHANGED stderr

\* A send into one channel per size, that of the first game's resource,
\* instead of the resource's own channel.
SendShared(p) ==
    /\ sends' = [sends EXCEPT ![p] = @ + 1]
    /\ IF exited
       THEN /\ task' = [task EXCEPT ![p] = "undelivered"]
            /\ channel' = [channel EXCEPT ![p].connected = FALSE]
            /\ stderr' = [stderr EXCEPT ![p] = @ + LogLines]
       ELSE /\ Len(channel[<<0, p[2]>>].buf) < ChannelCapacity
            /\ task' = [task EXCEPT ![p] = "sent"]
            /\ channel' = [channel EXCEPT ![<<0, p[2]>>] =
                  [buf |-> Append(@.buf, Fetched(p)), connected |-> FALSE]]
            /\ UNCHANGED stderr

\* match tx.send(img) and the return of the task, which drops tx. With
\* the receiver dropped the send fails at once and the task reports it;
\* otherwise the send waits for room in the channel and buffers the image.
\* The send and the drop of tx are one step: a buffered message is
\* received the same with or without its sender.
Send(p) ==
    /\ sends' = [sends EXCEPT ![p] = @ + 1]
    /\ IF exited
       THEN /\ task' = [task EXCEPT ![p] = "undelivered"]
            /\ channel' = [channel EXCEPT ![p].connected = FALSE]
            /\ stderr' = [stderr EXCEPT ![p] = @ + LogLines]
       ELSE /\ Len(channel[p].buf) < ChannelCapacity
            /\ task' = [task EXCEPT ![p] = "sent"]
            /\ channel' = [channel EXCEPT ![p] =
                  [buf |-> Append(@.buf, Fetched(p)), connected |-> FALSE]]
            /\ UNCHANGED stderr

\* An Err arm of one of the four stages: the task reports the failure,
\* returns without sending and drops tx.
Fail(p) ==
    /\ stderr' = [stderr EXCEPT ![p] = @ + LogLines]
    /\ task' = [task EXCEPT ![p] = "failed"]
    /\ channel' = [channel EXCEPT ![p].connected = FALSE]
    /\ UNCHANGED sends

\* The task of Photo::new, all four stages (parse, connect, download,
\* decode) succeeding and the image sent, taken as one step: the stages
\* share nothing with the rest of the program.
TaskSend(p) ==
    /\ ~panicked
    /\ task[p] = "running"
    /\ Cardinality(Finished) < MaxFinished
    /\ Send(p)
    /\ UNCHANGED <<main, build, exited, stage, games, cursor, photo, panicked,
                   firstGot, ret>>

\* A failing stage that falls through to the send instead of returning.
TaskFailFallsThrough(p) ==
    /\ ~panicked
    /\ task[p] = "running"
    /\ Cardinality(Finished) < MaxFinished
    /\ channel' = [channel EXCEPT ![p] =
                      [buf |-> Append(@.buf, Fetched(p)), connected |-> FALSE]]
    /\ task' = [task EXCEPT ![p] = "failed"]
    /\ stderr' = [stderr EXCEPT ![p] = @ + LogLines]
    /\ UNCHANGED <<main, build, exited, stage, sends, games, cursor, photo,
                   panicked, firstGot, ret>>

\* The task of Photo::new, one of the stages failing, taken as one step.
TaskFail(p) ==
    /\ ~panicked
    /\ task[p] = "running"
    /\ Cardinality(Finished) < MaxFinished
    /\ Fail(p)
    /\ UNCHANGED <<main, build, exited, stage, games, cursor, photo, panicked,
                   firstGot, ret>>

\* ------------------------------------------------- the task, by stages

\* A stage of the task that reports and then retries from the start, once.
TaskStageErrRetries(p) ==
    /\ ~panicked
    /\ task[p] = "running"
    /\ stage[p] < Len(Stages)
    /\ stage[p] = 1 => Cardinality(Started) < MaxStarted
    /\ stderr[p] < LogLines
    /\ stderr' = [stderr EXCEPT ![p] = @ + LogLines]
    /\ stage' = [stage EXCEPT ![p] = 1]
    /\ UNCHANGED <<main, build, exited, sends, task, channel, games, cursor, photo,
                   panicked, firstGot, ret>>

\* A stage that returns on its error without reporting it.
TaskStageErrUnreported(p) ==
    /\ ~panicked
    /\ task[p] = "running"
    /\ stage[p] < Len(Stages)
    /\ stage[p] = 1 => Cardinality(Started) < MaxStarted
    /\ task' = [task EXCEPT ![p] = "failed"]
    /\ channel' = [channel EXCEPT ![p].connected = FALSE]
    /\ UNCHANGED <<main, build, exited, stage, stderr, sends, games, cursor, photo,
                   panicked, firstGot, ret>>

\* The Ok arm of parse, connect, download or decode: on to the next stage.
TaskStageOk(p) ==
    /\ ~panicked
    /\ task[p] = "running"
    /\ stage[p] < Len(Stages)
    /\ stage[p] = 1 => Cardinality(Started) < MaxStarted
    /\ stage' = [stage EXCEPT ![p] = @ + 1]
    /\ UNCHANGED <<main, build, exited, stderr, sends, task, channel, games, cursor,
                   photo, panicked, firstGot, ret>>

\* The Err arm of parse, connect, download or decode.
TaskStageErr(p) ==
    /\ ~panicked
    /\ task[p] = "running"
    /\ stage[p] < Len(Stages)
    /\ stage[p] = 1 => Cardinality(Started) < MaxStarted
    /\ Fail(p)
    /\ UNCHANGED <<main, build, exited, stage, games, cursor, photo, panicked,
                   firstGot, ret>>

\* The last stage: tx.send(img).
TaskDeliver(p) ==
    /\ ~panicked
    /\ task[p] = "running"
    /\ stage[p] = Len(Stages)
    /\ Send(p)
    /\ UNCHANGED <<main, build, exited, stage, games, cursor, photo, panicked,
                   firstGot, ret>>

\* The window closes and main returns: the Schedule is dropped, and with
\* it the receiver of every photo. The tasks belong to the runtime and may
\* still be running.
Exit ==
    /\ ~panicked /\ ~exited
    /\ exited' = TRUE
    /\ UNCHANGED <<main, build, stage, stderr, sends, games, cursor, photo, channel,
                   task, panicked, firstGot, ret>>

\* ---------------------------------------------------------------- page

\* The left most snippet of the page.
PageLeft == (cursor \div PAGE_SIZE) * PAGE_SIZE

\* The right end of the page taken up to games.len() instead of one short.
PageRightWhole(last) ==
    IF PageLeft + PAGE_SIZE < last + 1 THEN PageLeft + PAGE_SIZE ELSE last + 1

\* The exclusive right end of the page, given games.len() - 1.
PageRight(last) ==
    IF PageLeft + PAGE_SIZE < last THEN PageLeft + PAGE_SIZE ELSE last

\* The focus of the page.
PageFocus == cursor % PAGE_SIZE

\* A closure that polls the large photo of every game of the slice.
PolledLarge(index) == <<PageLeft + index, "large">>

\* The photo that the closure of page polls for the index-th game of the
\* slice: the large one of the focus, the small one of any other.
Polled(index) ==
    <<PageLeft + index, IF index = PageFocus THEN "large" ELSE "small">>

\* A closure that falls back on the large logo in both arms.
SnippetOfOneLogo(index) ==
    LET p == Polled(index)
        got == get(photo[p], channel[p]).result
        game == games[p[1] + 1]
    IN  IF index = PageFocus
        THEN [kind |-> "Large",
              image |-> IF got # None THEN got ELSE MLB_LOGO_LARGE,
              headline |-> game.headline,
              subhead |-> game.subhead]
        ELSE [kind |-> "Small",
              image |-> IF got # None THEN got ELSE MLB_LOGO_LARGE]

\* The closure of page: the snippet of the index-th game of the slice.
SnippetOf(index) ==
    LET p == Polled(index)
        got == get(photo[p], channel[p]).result
        game == games[p[1] + 1]
    IN  IF index = PageFocus
        THEN [kind |-> "Large",
              image |-> IF got # None THEN got ELSE MLB_LOGO_LARGE,
              headline |-> game.headline,
              subhead |-> game.subhead]
        ELSE [kind |-> "Small",
              image |-> IF got # None THEN got ELSE MLB_LOGO_SMALL]

\* Schedule::page. games.len() - 1 panics under overflow checks on an
\* empty listing; the slice games[left..right] panics when left > right or
\* right > games.len().
Page ==
    /\ ~panicked /\ ~exited
    /\ LET last == UsizeSub(Len(games), 1)
           right == PageRight(last.val)
       IN  IF ~last.ok \/ PageLeft > right \/ right > Len(games)
           THEN Panic
           ELSE LET polled == {Polled(index) : index \in 0 .. right - PageLeft - 1}
                    after == [p \in polled |-> get(photo[p], channel[p])]
                IN  /\ photo' = [p \in DOMAIN photo |->
                                   IF p \in polled THEN after[p].photo ELSE photo[p]]
                    /\ channel' = [p \in DOMAIN channel |->
                                   IF p \in polled THEN after[p].channel
                                   ELSE channel[p]]
                    /\ firstGot' = [p \in DOMAIN firstGot |->
                                   IF p \in polled /\ firstGot[p] = None
                                   THEN after[p].result ELSE firstGot[p]]
                    /\ ret' = [op |-> "page",
                               snippets |-> [k \in 1 .. right - PageLeft |->
                                               SnippetOf(k - 1)],
                               items |-> [k \in 1 .. right - PageLeft |->
                                               PageLeft + k - 1],
                               before |-> [p \in polled |-> photo[p]],
                               taskAt |-> [p \in polled |-> task[p]],
                               got |-> [p \in polled |-> after[p].result],
                               tried |-> [p \in polled |-> after[p].tried]]
                    /\ UNCHANGED <<main, build, exited, stage, stderr, sends, games, cursor, task, panicked>>

\* ---------------------------------------------------------------- main

\* api::Game: the i-th game of the d-th date of a payload, with the fields
\* that the conversion reads.
ApiGame(d, i) ==
    [headline |-> <<"headline", d, i>>,
     subhead |-> <<"subhead", d, i>>,
     large |-> <<"src", d, i, "large">>,
     small |-> <<"src", d, i, "small">>]

\* api::Schedule.dates as serde_json can deliver it: any number of dates,
\* each with any number of games.
Payloads ==
    UNION {{[d \in 1 .. nd |-> [games |-> [i \in 1 .. counts[d] |-> ApiGame(d, i - 1)]]] :
              counts \in [1 .. nd -> 0 .. MaxDateGames]} :
           nd \in 0 .. MaxDates}

\* main before api::Schedule::try_from(api::DEFAULT): no Schedule yet.
InitMain ==
    /\ build \in Builds
    /\ main = [pc |-> "try_from", stage |-> 1, src |-> DEFAULT, err |-> None,
               dates |-> <<>>]
    /\ games = <<>>
    /\ cursor = 0
    /\ photo = [p \in {} |-> None]
    /\ channel = [p \in {} |-> None]
    /\ task = [p \in {} |-> None]
    /\ firstGot = [p \in {} |-> None]
    /\ stage = [p \in {} |-> 1]
    /\ stderr = [p \in {} |-> 0]
    /\ sends = [p \in {} |-> 0]
    /\ panicked = FALSE
    /\ exited = FALSE
    /\ ret = [op |-> "new"]

\* A stage of try_from succeeding: on to the next stage, and after the
\* last, serde_json::from_slice, Ok(schedule) with the dates it parsed.
TryFromStageOk ==
    /\ main.pc = "try_from"
    /\ IF main.stage < Len(TryFromStages)
       THEN main' = [main EXCEPT !.stage = @ + 1]
       ELSE \E dates \in Payloads :
                main' = [main EXCEPT !.pc = "from", !.dates = dates]
    /\ UNCHANGED <<build, games, cursor, photo, channel, task, panicked,
                   exited, stage, stderr, sends, firstGot, ret>>

\* A failing stage that starts the fetch over instead of returning.
TryFromStageErrRetries ==
    /\ main.pc = "try_from"
    /\ main' = [main EXCEPT !.stage = 1]
    /\ UNCHANGED <<build, games, cursor, photo, channel, task, panicked,
                   exited, stage, stderr, sends, firstGot, ret>>

\* A stage of try_from failing: map_err(...)? returns the APIError of that
\* stage and main goes to display_err.
TryFromStageErr ==
    /\ main.pc = "try_from"
    /\ main' = [main EXCEPT
                  !.pc = "display_err",
                  !.err = [src |-> main.src,
                           context |-> ErrorContext[main.stage]]]
    /\ UNCHANGED <<build, games, cursor, photo, channel, task, panicked,
                   exited, stage, stderr, sends, firstGot, ret>>

\* display_err: the error text is drawn until the window closes, then
\* exit(1).
DisplayErr ==
    /\ main.pc = "display_err"
    /\ main' = [main EXCEPT !.pc = "exit"]
    /\ exited' = TRUE
    /\ UNCHANGED <<build, games, cursor, photo, channel, task, panicked,
                   stage, stderr, sends, firstGot, ret>>

\* impl From<api::Schedule> for Schedule: schedule.dates.pop().unwrap()
\* panics on an empty dates list; otherwise one Game per game of the last
\* date, in order, each with its two Photo::new, and cursor 0.
From ==
    /\ main.pc = "from"
    /\ ~panicked
    /\ IF main.dates = <<>>
       THEN Panic
       ELSE LET last == main.dates[Len(main.dates)].games
                n == Len(last)
            IN  /\ games' = [i \in 1 .. n |->
                                [headline |-> last[i].headline,
                                 subhead |-> last[i].subhead]]
                /\ cursor' = 0
                /\ photo' = [p \in PhotoIds(n) |-> None]
                /\ channel' = [p \in PhotoIds(n) |->
                                  [buf |-> <<>>, connected |-> TRUE]]
                /\ task' = [p \in PhotoIds(n) |-> "running"]
                /\ firstGot' = [p \in PhotoIds(n) |-> None]
                /\ stage' = [p \in PhotoIds(n) |-> 1]
                /\ stderr' = [p \in PhotoIds(n) |-> 0]
                /\ sends' = [p \in PhotoIds(n) |-> 0]
                /\ main' = [main EXCEPT !.pc = "loop", !.dates = <<>>]
                /\ UNCHANGED <<build, panicked, exited, ret>>

\* ------------------------------------------------------ specifications

\* The render loop and the tasks of every photo, in any interleaving.
Next ==
    \/ Left
    \/ Right
    \/ HasMore
    \/ HasLess
    \/ Page
    \/ \E p \in DOMAIN task : TaskSend(p)
    \/ \E p \in DOMAIN task : TaskFail(p)

Spec == Init /\ [][Next]_vars

\* The render loop alone on listings of up to MaxNavGames games: the runs
\* in which no task has been scheduled yet.
NextNav ==
    \/ Left
    \/ Right
    \/ HasMore
    \/ HasLess
    \/ Page

SpecNav == InitNav /\ [][NextNav]_vars

\* The tasks stage by stage, against a render loop that draws the first
\* page until the window closes.
NextTask ==
    \/ Page
    \/ Exit
    \/ \E p \in DOMAIN task : TaskStageOk(p)
    \/ \E p \in DOMAIN task : TaskStageErr(p)
    \/ \E p \in DOMAIN task : TaskDeliver(p)

SpecTask == InitTask /\ [][NextTask]_vars

\* The tasks stage by stage against a render loop that never ends and
\* holds the cursor: main calls page() once per frame for as long as the
\* window is open, and the runtime goes on polling a task whose next step
\* is ready, here the send into a channel that has room.
NextLive ==
    \/ Page
    \/ \E p \in DOMAIN task : TaskStageOk(p)
    \/ \E p \in DOMAIN task : TaskStageErr(p)
    \/ \E p \in DOMAIN task : TaskDeliver(p)

SpecLive ==
    /\ InitTask
    /\ [][NextLive]_vars
    /\ WF_vars(Page)
    /\ \A p \in PhotoIds(MaxTaskGames) :
          WF_vars(p \in DOMAIN task /\ TaskDeliver(p))

\* main from its start to the first frame: the fetch of the listing, the
\* conversion or display_err, and the tasks that the conversion spawned.
NextMain ==
    \/ TryFromStageOk
    \/ TryFromStageErr
    \/ DisplayErr
    \/ From
    \/ \E p \in DOMAIN task : TaskSend(p)
    \/ \E p \in DOMAIN task : TaskFail(p)

SpecMain == InitMain /\ [][NextMain]_vars

\* -------------------------------------------------------------- claims

Min(a, b) == IF a < b THEN a ELSE b

\* The start of the window as the specification words it.
WindowStart == (cursor \div PAGE_SIZE) * PAGE_SIZE

\* C1: in every reachable state 0 <= cursor <= games.len() - 2, and no
\* navigation step raises an error. Read in the claim's favour on listings
\* of fewer than two games: there the cursor is only asked to stay at 0.
C1_CursorInRange ==
    /\ ~panicked
    /\ 0 <= cursor
    /\ cursor <= (IF Len(games) >= 2 THEN Len(games) - 2 ELSE 0)

\* C2: for a cursor that is a valid index, page returns at most PAGE_SIZE
\* snippets, exactly one of them Large and all the others Small.
C2_OneFocused ==
    (ret.op = "page" /\ 0 <= cursor /\ cursor < Len(games)) =>
        /\ Len(ret.snippets) <= PAGE_SIZE
        /\ Cardinality({k \in DOMAIN ret.snippets :
                            ret.snippets[k].kind = "Large"}) = 1
        /\ \A k \in DOMAIN ret.snippets :
               ret.snippets[k].kind \in {"Large", "Small"}

\* C3: a get made before the photo's task has sent returns None; once a
\* get has returned an image, every later get of that photo returns the
\* same image; a photo field that is Some is never cleared or overwritten.
C3_PollEmptyThenStable ==
    /\ [](ret.op = "page" =>
            \A p \in DOMAIN ret.got :
                /\ ret.taskAt[p] # "sent" => ret.got[p] = None
                /\ ret.before[p] # None => ret.got[p] = ret.before[p]
                /\ firstGot[p] # None => ret.got[p] = firstGot[p])
    /\ [][\A p \in DOMAIN photo : photo[p] # None => photo'[p] = photo[p]]_vars

\* C3 witness: a photo polled again after its image was cached, the poll
\* returning the cached image of the photo's own task.
C3_Witness ==
    /\ ret.op = "page"
    /\ \E p \in DOMAIN ret.got :
           /\ ret.before[p] # None
           /\ ret.got[p] = Fetched(p)
           /\ firstGot[p] = Fetched(p)

\* C4: a photo whose task ended without sending has returned None from
\* every get so far, before and after the task ended, and get left it
\* empty.
C4_FailedStaysEmpty ==
    \A p \in DOMAIN task :
        task[p] = "failed" =>
            /\ photo[p] = None
            /\ firstGot[p] = None
            /\ (ret.op = "page" /\ p \in DOMAIN ret.got) => ret.got[p] = None

\* C4 witness: a photo polled after its task had ended without sending.
C4_Witness ==
    /\ ret.op = "page"
    /\ \E p \in DOMAIN ret.got :
           /\ ret.taskAt[p] = "failed"
           /\ ~channel[p].connected
           /\ ret.got[p] = None

\* C5: page returns one snippet per game of games[start..end], in order,
\* with start = (cursor / PAGE_SIZE) * PAGE_SIZE and
\* end = min(start + PAGE_SIZE, games.len() - 1); the Large snippet is the
\* one at position cursor % PAGE_SIZE, the game at index cursor.
C5_PageWindow ==
    ret.op = "page" =>
        LET end == Min(WindowStart + PAGE_SIZE, Len(games) - 1)
        IN  /\ Len(ret.snippets) = end - WindowStart
            /\ ret.items = [k \in 1 .. end - WindowStart |-> WindowStart + k - 1]
            /\ DOMAIN ret.got =
                   {<<i, IF i = cursor THEN "large" ELSE "small">> :
                        i \in WindowStart .. end - 1}
            /\ \A k \in DOMAIN ret.snippets :
                   /\ ret.snippets[k].kind = "Large" <=> k - 1 = cursor % PAGE_SIZE
                   /\ ret.snippets[k].kind = "Large" =>
                          /\ ret.items[k] = cursor
                          /\ ret.snippets[k].headline = games[cursor + 1].headline
                          /\ ret.snippets[k].subhead = games[cursor + 1].subhead

\* C5 witness: 14 games, cursor 7: the window is games 5..9, focus 2.
C5_Witness ==
    /\ ret.op = "page"
    /\ Len(games) = 14
    /\ cursor = 7
    /\ ret.items = <<5, 6, 7, 8, 9>>
    /\ ret.snippets[3].kind = "Large"

\* C6: has_more returns true iff some game lies beyond the current
\* window, at an index >= start + PAGE_SIZE. Stated on the listings of at
\* least PAGE_SIZE games, where games.len() - PAGE_SIZE cannot wrap.
C6_HasMoreIffItemBeyond ==
    (ret.op = "has_more" /\ Len(games) >= PAGE_SIZE) =>
        (ret.val <=> \E i \in 0 .. Len(games) - 1 : i >= WindowStart + PAGE_SIZE)

\* C7: has_more returns true iff cursor < games.len() - PAGE_SIZE, read
\* over the integers.
C7_HasMoreIffBelowBound ==
    ret.op = "has_more" => (ret.val <=> cursor < Len(games) - PAGE_SIZE)

\* C8: has_less returns true iff the page index cursor / PAGE_SIZE is
\* greater than 0, that is iff cursor >= PAGE_SIZE.
C8_HasLessIffLaterPage ==
    ret.op = "has_less" =>
        /\ ret.val <=> cursor \div PAGE_SIZE > 0
        /\ ret.val <=> cursor >= PAGE_SIZE

\* C8 witness: has_less answering true on the first cursor of page 1.
C8_Witness ==
    /\ ret.op = "has_less"
    /\ cursor = PAGE_SIZE
    /\ ret.val

\* C9: right sets cursor to cursor + 1 when cursor < games.len() - 2 and
\* leaves it unchanged otherwise, and changes nothing else.
C9_RightSaturates ==
    [][Right =>
          /\ cursor' = IF cursor < Len(games) - 2 THEN cursor + 1 ELSE cursor
          /\ UNCHANGED <<games, photo, channel, task>>]_vars

\* C10: left sets cursor to cursor - 1 when cursor > 0 and is a no-op at
\* cursor 0, and changes nothing else.
C10_LeftSaturates ==
    [][Left =>
          /\ cursor' = IF cursor > 0 THEN cursor - 1 ELSE cursor
          /\ cursor' >= 0
          /\ UNCHANGED <<games, photo, channel, task, panicked>>]_vars

\* C10 witness: left has moved the cursor down by one while a photo is
\* cached and another task's image waits in its channel.
C10_Witness ==
    /\ ret.op = "left"
    /\ ret.from > 0
    /\ cursor = ret.from - 1
    /\ \E p \in DOMAIN photo : photo[p] # None
    /\ \E p \in DOMAIN channel : channel[p].buf # <<>>

\* C11: every task calls tx.send at most once: once when all four stages
\* have succeeded, never when a stage has failed; a task that has sent or
\* failed has returned and takes no further step.
C11_AtMostOneSend ==
    /\ [](\A p \in DOMAIN task :
            /\ sends[p] <= 1
            /\ Len(channel[p].buf) <= 1
            /\ task[p] = "running" => sends[p] = 0 /\ stderr[p] = 0
            /\ task[p] \in {"sent", "undelivered"} =>
                   sends[p] = 1 /\ stage[p] = Len(Stages)
            /\ task[p] = "failed" => sends[p] = 0 /\ stage[p] < Len(Stages))
    /\ [][\A p \in DOMAIN task :
            task[p] # "running" =>
                /\ task'[p] = task[p]
                /\ stage'[p] = stage[p]
                /\ sends'[p] = sends[p]
                /\ stderr'[p] = stderr[p]]_vars

\* C11 witness: one task has sent after its four stages, another has
\* failed at the download stage without sending.
C11_Witness ==
    \E p, q \in DOMAIN task :
        /\ task[p] = "sent" /\ sends[p] = 1 /\ stage[p] = Len(Stages)
        /\ task[q] = "failed" /\ sends[q] = 0 /\ Stages[stage[q]] = "download"

C13_DroppedReceiverSilent ==
    \A p \in DOMAIN task :
        task[p] = "undelivered" => stderr[p] = 0 /\ channel[p].buf = <<>>

\* C13 as amended: a send that finds the receiver dropped buffers
\* nothing and does not wait; the task reports the failed send in LogLines
\* lines on stderr and returns.
C13_DroppedReceiverReported ==
    /\ [](\A p \in DOMAIN task :
            task[p] = "undelivered" =>
                /\ exited
                /\ sends[p] = 1
                /\ stderr[p] = LogLines
                /\ channel[p].buf = <<>>)
    /\ [][\A p \in DOMAIN task :
            (exited /\ task[p] = "running" /\ task'[p] # "running") =>
                \/ task'[p] = "failed"
                \/ task'[p] = "undelivered" /\ channel'[p].buf = <<>>]_vars

\* C13 witness: a task has reached its send after main returned.
C13_Witness ==
    /\ exited
    /\ \E p \in DOMAIN task :
           /\ task[p] = "undelivered"
           /\ stage[p] = Len(Stages)
           /\ stderr[p] = LogLines

\* C14: a task that has reached its send can always take it, polled or
\* not, and page can always be called, whatever the tasks are doing.
C14_NeverBlocks ==
    /\ \A p \in DOMAIN task :
           (~panicked /\ task[p] = "running" /\ stage[p] = Len(Stages)) =>
               /\ exited \/ Len(channel[p].buf) < ChannelCapacity
               /\ ENABLED TaskDeliver(p)
    /\ (~panicked /\ ~exited) => ENABLED Page

\* C14 witness: the image of a photo that page never polls sits in its
\* channel, its task returned, while page has been called.
C14_Witness ==
    /\ ret.op = "page"
    /\ \E p \in DOMAIN task :
           /\ p \notin DOMAIN ret.got
           /\ task[p] = "sent"
           /\ channel[p].buf = <<Fetched(p)>>

\* The photos the claims expect page to poll: the large one of the game
\* at the cursor, the small one of every other game of the window.
WindowPhotos ==
    {<<i, IF i = cursor THEN "large" ELSE "small">> :
        i \in WindowStart .. Min(WindowStart + PAGE_SIZE, Len(games) - 1) - 1}

\* C15: every snippet of page carries an image of its size class: the
\* game's own large (Large) or small (Small) image when get returned it,
\* the logo of that size when and only when get returned None; a Large
\* snippet also carries the game's headline and subhead.
C15_SnippetImages ==
    ret.op = "page" =>
        \A k \in DOMAIN ret.snippets :
            LET sn == ret.snippets[k]
                large == sn.kind = "Large"
                p == <<ret.items[k], IF large THEN "large" ELSE "small">>
            IN  /\ p \in DOMAIN ret.got
                /\ sn.image # None
                /\ ret.got[p] # None => sn.image = Fetched(p)
                /\ ret.got[p] = None =>
                       sn.image = IF large THEN MLB_LOGO_LARGE ELSE MLB_LOGO_SMALL
                /\ large => /\ sn.headline = games[ret.items[k] + 1].headline
                            /\ sn.subhead = games[ret.items[k] + 1].subhead

\* C15 witness: a page whose Large snippet carries the game's own large
\* image and one of whose Small snippets carries the small logo.
C15_Witness ==
    /\ ret.op = "page"
    /\ \E k, j \in DOMAIN ret.snippets :
           /\ ret.snippets[k].kind = "Large"
           /\ ret.snippets[k].image = Fetched(<<ret.items[k], "large">>)
           /\ ret.snippets[j].kind = "Small"
           /\ ret.snippets[j].image = MLB_LOGO_SMALL

\* C16: right, has_more and page never panic on the subtractions
\* games.len() - 2, games.len() - PAGE_SIZE and games.len() - 1, on any
\* listing the constructor can build.
C16_NoPanic == ~panicked

\* C17: with two games or more the last game is never the focused game
\* and never a game of the window that page returns.
C17_LastGameHidden ==
    Len(games) >= 2 =>
        /\ cursor # Len(games) - 1
        /\ ret.op = "page" =>
               /\ \A k \in DOMAIN ret.items : ret.items[k] # Len(games) - 1
               /\ \A p \in DOMAIN ret.got : p[1] # Len(games) - 1

\* C17 witness: 14 games, the cursor as far right as it goes: the page is
\* games 10, 11, 12 and game 13 is not on it.
C17_Witness ==
    /\ Len(games) = 14
    /\ cursor = 12
    /\ ret.op = "page"
    /\ ret.items = <<10, 11, 12>>

\* C18: a call of page polls exactly the large photo of the focused game
\* and the small photo of every other game of the window; the field and
\* the channel of every other photo, the cursor and the games are
\* unchanged.
C18_PagePollsWindowOnly ==
    [][Page =>
          /\ cursor' = cursor
          /\ games' = games
          /\ IF panicked'
             THEN photo' = photo /\ channel' = channel
             ELSE /\ DOMAIN ret'.got = WindowPhotos
                  /\ DOMAIN ret'.tried = WindowPhotos
                  /\ \A p \in DOMAIN photo \ WindowPhotos :
                         photo'[p] = photo[p] /\ channel'[p] = channel[p]]_vars

\* C18 witness: page has polled two photos or more, one of them taking
\* its image from the channel, while a photo it did not poll holds one.
C18_Witness ==
    /\ ret.op = "page"
    /\ Cardinality(DOMAIN ret.got) >= 2
    /\ \E p \in DOMAIN ret.got : ret.before[p] = None /\ ret.got[p] # None
    /\ \E q \in DOMAIN photo \ DOMAIN ret.got : channel[q].buf # <<>>

\* C19: only left and right change the cursor; no step changes the games.
C19_CursorByNavigationOnly ==
    [][/\ cursor' # cursor => Left \/ Right
       /\ games' = games]_vars

\* C19 witness: page has been called away from cursor 0 after a task
\* finished, the cursor where right left it.
C19_Witness ==
    /\ ret.op = "page"
    /\ Len(games) >= 2
    /\ cursor = Len(games) - 2
    /\ cursor > 0
    /\ \E p \in DOMAIN task : task[p] # "running"

\* C20: a get on a photo whose field is Some returns the field without
\* calling try_recv, and leaves the channel as it was.
C20_CachedGetSkipsChannel ==
    /\ [](ret.op = "page" =>
            \A p \in DOMAIN ret.got :
                ret.before[p] # None =>
                    ~ret.tried[p] /\ ret.got[p] = ret.before[p])
    /\ [][Page =>
            \A p \in DOMAIN photo :
                photo[p] # None => channel'[p] = channel[p]]_vars

\* C20 witness: a get on a cached photo that did not call try_recv.
C20_Witness ==
    /\ ret.op = "page"
    /\ \E p \in DOMAIN ret.got :
           /\ ret.before[p] = Fetched(p)
           /\ ~ret.tried[p]
           /\ channel[p] = [buf |-> <<>>, connected |-> FALSE]

\* The items that the claim expects of a payload: one per game of its last
\* dates entry, in order, and none when there is no entry.
C21_Items(dates) ==
    IF dates = <<>>
    THEN <<>>
    ELSE [i \in 1 .. Len(dates[Len(dates)].games) |->
            [headline |-> <<"headline", Len(dates), i - 1>>,
             subhead |-> <<"subhead", Len(dates), i - 1>>]]

\* C21: constructing the listing from a fetched payload never fails, also
\* for an empty dates list or an empty games list, and yields one item per
\* game of the last dates entry in the same order, cursor 0, and exactly two
\* running fetch tasks (large and small) per item.
C21_ConstructionNeverFails ==
    [][From =>
          /\ ~panicked'
          /\ main'.pc = "loop"
          /\ games' = C21_Items(main.dates)
          /\ cursor' = 0
          /\ DOMAIN task' = (0 .. Len(games') - 1) \X {"large", "small"}
          /\ \A p \in DOMAIN task' : task'[p] = "running"]_vars

\* The tag that the claim gives to each stage of the fetch.
C22_Tag(s) ==
    CASE s = 1 -> "URIParsing"
      [] s = 2 -> "ConnectionEstablishment"
      [] s = 3 -> "Downloading"
      [] s = 4 -> "Deserializing"

\* C22: try_from runs parse, connect, download, deserialize in that order
\* and returns the error of the first stage that fails, tagged with that
\* stage's context and carrying the source string; after an error no listing
\* is constructed, no image task is spawned and the fetch is not retried.
C22_FirstErrorReturned ==
    /\ [](main.err # None =>
            /\ main.pc \in {"display_err", "exit"}
            /\ main.err.src = DEFAULT
            /\ main.err.context = C22_Tag(main.stage)
            /\ games = <<>>
            /\ DOMAIN task = {})
    /\ [](main.pc \in {"from", "loop"} =>
            main.err = None /\ main.stage = 4)
    /\ [][/\ (main'.stage # main.stage) =>
                (/\ main.pc = "try_from" /\ main'.pc = "try_from"
                 /\ main'.stage = main.stage + 1
                 /\ main.err = None /\ main'.err = None)
          /\ (main.err # None) =>
                (/\ main'.err = main.err
                 /\ main'.stage = main.stage
                 /\ main'.pc # "try_from")]_vars

\* C22 witness: the download stage failed after parse and connect succeeded,
\* and main went on to exit with that error.
C22_Witness ==
    /\ main.pc = "exit"
    /\ main.err # None
    /\ main.err.context = "Downloading"
    /\ main.stage = 3
    /\ exited

\* C24: no cross-delivery. Under any interleaving of the tasks, what a
\* resource caches, what its channel holds and what its first successful
\* poll returned is the image of its own task from its own source, and only
\* once that task has sent; no order of completion changes this.
C24_NoCrossDelivery ==
    \A p \in DOMAIN photo :
        /\ photo[p] \in {None, <<"img", p[1], p[2]>>}
        /\ firstGot[p] \in {None, <<"img", p[1], p[2]>>}
        /\ \A k \in 1 .. Len(channel[p].buf) :
              channel[p].buf[k] = <<"img", p[1], p[2]>>
        /\ (photo[p] # None \/ channel[p].buf # <<>>) => task[p] = "sent"
        /\ \A q \in DOMAIN photo :
              (q # p /\ photo[q] # None) => photo[q] # <<"img", p[1], p[2]>>

\* C24 witness: two resources of the same size have both cached, each its
\* own image, while the task of a third resource has already sent an image
\* that nobody has received.
C24_Witness ==
    \E p, q, r \in DOMAIN photo :
        /\ p[1] # q[1] /\ p[2] = q[2]
        /\ photo[p] = <<"img", p[1], p[2]>>
        /\ photo[q] = <<"img", q[1], q[2]>>
        /\ r \notin {p, q}
        /\ task[r] = "sent" /\ photo[r] = None /\ channel[r].buf # <<>>

\* C25: the navigation indicators agree with navigation. Once has_more has
\* answered false, no call of right moves the window to a later page, and
\* once has_less has answered false, no call of left moves it to an earlier
\* page (the page of a cursor being cursor / PAGE_SIZE).
C25_IndicatorsAgreeWithNavigation ==
    [][/\ (ret.op = "has_more" /\ ~ret.val /\ Right) =>
            (cursor' \div PAGE_SIZE = cursor \div PAGE_SIZE)
       /\ (ret.op = "has_less" /\ ~ret.val /\ Left) =>
            (cursor' \div PAGE_SIZE = cursor \div PAGE_SIZE)]_vars

\* The last frame shows the image fetched for p on the snippet of p's game.
C23_Shows(p) ==
    /\ ret.op = "page"
    /\ \E k \in DOMAIN ret.snippets :
          /\ ret.items[k] = p[1]
          /\ ret.snippets[k].kind = (IF p[2] = "large" THEN "Large" ELSE "Small")
          /\ ret.snippets[k].image = <<"img", p[1], p[2]>>

\* C23: liveness. With the cursor held and the render loop calling page()
\* for ever, under weak fairness of the loop and of the tasks, there comes a
\* frame from which on every polled resource whose task has succeeded at its
\* four stages is shown with its fetched image instead of the logo, in that
\* frame and in every later one. (A task that has passed its four stages
\* stays so, which makes this the same as: success leads to being shown
\* for ever.)
C23_EventuallyShown ==
    <>[](\A p \in DOMAIN task \cap WindowPhotos :
            stage[p] = Len(Stages) => C23_Shows(p))

\* C23 witness: a frame showing the fetched large image of the first game
\* after an earlier frame had polled it in vain.
C23_Witness ==
    /\ C23_Shows(<<0, "large">>)
    /\ task[<<0, "large">>] = "sent"
    /\ ret.before[<<0, "large">>] # None
    /\ firstGot[<<0, "large">>] = <<"img", 0, "large">>

====
